---------------------------- MODULE Spec2Model ----------------------------
(***************************************************************************)
(* Model of blockfish-engine's background analysis                         *)
(* (src/blockfish-engine/src/ai/analysis.rs): the worker thread running    *)
(* `analysis`, the bounded channel created by `Analysis::new`, and the     *)
(* consumer's `Analysis` handle (poll, wait, cmp, stats, drop).            *)
(*                                                                         *)
(* The search itself (super::b_star::Search) is not among the source       *)
(* files; SearchStep models its step()/node_count() contract as the        *)
(* specification states it (section 4.3).                                  *)
(***************************************************************************)
EXTENDS Integers, Sequences, FiniteSets, TLC

\* ------------------------------------------------------------------ bounds

\* cfg.search_limit is drawn from 0..MaxLimit.
MaxLimit == 3
\* Ratings (i64 in the source) are drawn from 0..MaxRating.
MaxRating == 1
\* Root moves are MoveId 1..NumMoves.
NumMoves == 2
\* Capacity of the bounded channel; 256 in the source, scaled down so that
\* the worker can find the channel full.
ChanCap == 2

MoveIds == 1..NumMoves
Ratings == 0..MaxRating

\* std::i64::MAX, the initial global_min: a value above every rating.
I64Max == MaxRating + 1

\* Option::None of the stats slot.
NoStats == [none |-> TRUE]
\* No message is being sent.
NoMsg == [none |-> TRUE]

\* ------------------------------------------------------------------- state

VARIABLES
    \* Analysis (the handle)
    moves,          \* HashMap<MoveId, Move>
    rx_alive,       \* the handle (and its Receiver) has not been dropped
    cpc,            \* consumer position: "idle" or "waiting" (inside wait())
    last,           \* what the consumer's last completed call returned
    done_seen,      \* some poll() has returned Err(AnalysisDone)
    \* shared
    chan,           \* messages buffered in the sync_channel, oldest first
    stats,          \* Arc<RwLock<Option<Stats>>>
    tx_alive,       \* the AnalysisSink (and its SyncSender) has not been dropped
    \* analysis (the worker)
    pc,             \* "loop", "send", "finish", "drop", "done", "returned"
    search_limit,   \* cfg.search_limit
    iteration,
    global_min,
    pending,        \* the Msg the worker is sending
    \* Search
    node_count,
    best,           \* best-known rating of each root move
    \* history
    sent,           \* every Msg the channel accepted, in send order
    n_recv,         \* number of messages the handle has received
    step_calls,     \* calls of search.step()
    none_steps,     \* calls of search.step() that returned Ok(None)
    send_fails,     \* calls of sink.send() that returned false
    finish_calls,   \* calls of sink.finish()
    finish_arg,     \* the Stats passed to sink.finish()
    \* evaluation of the pure functions
    mode,           \* which part runs: "analysis", or the function evaluated
    \* Orientation
    orient,         \* the current Orientation
    origin,         \* the Orientation the turns started from
    turns,          \* the turns applied so far, oldest first
    \* intersecting_ranges
    xs,             \* the first list of ranges
    ys,             \* the second list of ranges
    i1,             \* the iterator's index into xs
    i2,             \* the iterator's index into ys
    pairs,          \* the pairs the iterator has yielded, in order
    it_done,        \* the iterator has returned None
    \* covered_hole and score
    matrix,         \* the BasicMatrix, rows bottom first, a row as the set
                    \* of its filled columns
    residue_buf,    \* the reused ResidueBuf
    hole,           \* the last call of covered_hole: whether one was made,
                    \* what it returned, and the buffer it was given
    arg,            \* the matrix score was called with
    score,          \* score's running sum
    depth,          \* score's count of holes found so far
    sc_pc,          \* where score is: "call", "loop" or "returned"
    result,         \* the ScoreParams score was called with and its value
    \* gaps_contiguous_areas
    gap_rows,       \* the rows handed in, each the list of its gaps
    area_call       \* whether the call was made, and the areas it returned

analysis_vars == <<moves, rx_alive, cpc, last, done_seen, chan, stats,
                   tx_alive, pc, search_limit, iteration, global_min, pending,
                   node_count, best, sent, n_recv, step_calls, none_steps,
                   send_fails, finish_calls, finish_arg>>

orient_vars == <<orient, origin, turns>>
ranges_vars == <<xs, ys, i1, i2, pairs, it_done>>
matrix_vars == <<matrix, residue_buf, hole>>
score_vars == <<arg, score, depth, sc_pc, result>>
areas_vars == <<gap_rows, area_call>>
eval_vars == <<mode, orient_vars, ranges_vars, matrix_vars, score_vars,
               areas_vars>>

vars == <<analysis_vars, eval_vars>>

handle_vars == <<moves, rx_alive, cpc, last, done_seen, n_recv>>
worker_vars == <<pc, iteration, global_min, pending, node_count, best,
                 step_calls, none_steps, send_fails, finish_calls, finish_arg>>

\* ----------------------------------------------------------------- helpers

Min(a, b) == IF a < b THEN a ELSE b

\* MkMsg with the two numeric fields of Move filled from each other.
MkMsgSwapped(move_id, it, rating, trace) ==
    [move_id |-> move_id,
     mov |-> [iteration |-> rating, rating |-> it, trace |-> trace]]

\* Move { iteration, rating, trace } wrapped in Msg { move_id, mov }.
MkMsg(move_id, it, rating, trace) ==
    [move_id |-> move_id,
     mov |-> [iteration |-> it, rating |-> rating, trace |-> trace]]

\* Stats with the two counters filled from each other.
MkStatsSwapped(it, nodes) == [iterations |-> nodes, nodes |-> it]

\* Stats { iterations, nodes, .. }; time_taken is wall-clock time and is
\* left out.
MkStats(it, nodes) == [iterations |-> it, nodes |-> nodes]

\* An insert that forgets every other entry of the map.
InsertOnly(map, k, v) == [x \in {k} |-> v]

\* HashMap::insert.
Insert(map, k, v) ==
    [x \in (DOMAIN map) \cup {k} |-> IF x = k THEN v ELSE map[x]]

\* Recv that keeps an entry the table already holds (entry().or_insert()).
RecvKeep(map, msg) ==
    IF msg.move_id \in DOMAIN map THEN map
    ELSE Insert(map, msg.move_id, msg.mov)

\* Analysis::recv: the new table.
Recv(map, msg) == Insert(map, msg.move_id, msg.mov)

\* try_recv that reports a gone sender before looking at the buffer.
TryRecvEager(q, sender) ==
    IF ~sender THEN "Disconnected"
    ELSE IF q # <<>> THEN "Ok"
    ELSE "Empty"

\* mpsc::Receiver::try_recv: "Ok", "Empty" or "Disconnected".
TryRecv(q, sender) ==
    IF q # <<>> THEN "Ok"
    ELSE IF sender THEN "Empty"
    ELSE "Disconnected"

\* Analysis::cmp: (rating, iteration) compared lexicographically.
Cmp(lhs, rhs) ==
    LET l == moves[lhs]
        r == moves[rhs]
    IN  IF l.rating < r.rating THEN "Less"
        ELSE IF l.rating > r.rating THEN "Greater"
        ELSE IF l.iteration < r.iteration THEN "Less"
        ELSE IF l.iteration > r.iteration THEN "Greater"
        ELSE "Equal"

\* Analysis::all_moves.
AllMoves == DOMAIN moves

\* Analysis::stats.
Stats == stats

\* ----------------------------------------------------- trace reconstruction

\* std::usize::MAX, cut to the largest integer the model checker represents.
UsizeMax == 2147483647

\* The game state a trace is replayed on, as the list of placements made
\* since the root: state.place(pl).
Place(state, idx) == Append(state, idx)

\* pl.did_hold of the placement with index idx in `state`.
DidHold(state, idx) == (Len(state) + idx) % 2 = 0

\* ffind.find(state.matrix(), pl.shape, pl.normal()): the inputs that bring
\* the piece to its landing, a function of the state and the placement.
Finesse(state, idx) ==
    IF idx % 2 = 0 THEN <<"Left">>
    ELSE IF Len(state) % 2 = 0 THEN <<"CW", "Right">>
    ELSE <<>>

\* The body of reconstruct_inputs' loop, from `state` with `inputs` so far.
RECURSIVE ReconstructFrom(_, _, _)
ReconstructFrom(state, inputs, trace) ==
    IF trace = <<>> THEN inputs
    ELSE LET idx == Head(trace)
             held == IF DidHold(state, idx)
                     THEN Append(inputs, "Hold")
                     ELSE inputs
         IN  ReconstructFrom(Place(state, idx),
                             Append(held \o Finesse(state, idx), "HD"),
                             Tail(trace))

\* reconstruct_inputs(shtb, state0, trace).
ReconstructInputs(state0, trace) == ReconstructFrom(state0, <<>>, trace)

\* The closure spawn hands to Analysis::new: replay from the root state.
TraceInputs(trace) == ReconstructInputs(<<>>, trace)

\* The slice taken from the wrong end: &mov.trace[len..].
TraceSliceFrom(trace, len) == SubSeq(trace, len + 1, Len(trace))

\* &mov.trace[..len]
TraceSlice(trace, len) == SubSeq(trace, 1, len)

\* Analysis::suggestion.
Suggestion(m_id, len) ==
    LET mov == moves[m_id]
        n == Min(len, Len(mov.trace))
    IN  [inputs |-> TraceInputs(TraceSlice(mov.trace, n)),
         rating |-> mov.rating]

\* ------------------------------------------------------------------ Search

\* The placement indices of the line that gives root move m the rating r:
\* the root placement, then one placement per rating point short of the
\* worst rating.
TraceOf(m, r) == <<m>> \o [i \in 1..(MaxRating - r) |-> i]

\* What search.step() may return: a strictly improved rating of one root
\* move with the trace of its line, Ok(None), or Err (search exhausted).
StepOutcomes ==
    UNION {{[kind |-> "Changed", move_id |-> m, rating |-> r,
             trace |-> TraceOf(m, r)] :
               r \in {x \in Ratings : x < best[m]}} :
           m \in MoveIds}
    \cup {[kind |-> "None"], [kind |-> "Err"]}

\* ------------------------------------------------------------------ worker

\* search.step() returning o: an expansion counts one node, an improvement
\* becomes the root move's best rating, exhaustion changes nothing.
SearchStep(o) ==
    /\ node_count' = IF o.kind = "Err" THEN node_count ELSE node_count + 1
    /\ best' = IF o.kind = "Changed"
               THEN [best EXCEPT ![o.move_id] = o.rating]
               ELSE best

\* The loop guard checked after the step instead of before it.
LoopGuardLate == node_count <= search_limit

\* while search.node_count() < cfg.search_limit
LoopGuard == node_count < search_limit

\* The iteration counter advanced by every step.
NextIterationAlways(kind, it) == it + 1

\* Ok(None) => iteration += 1; the other arms leave the counter alone.
NextIteration(kind, it) == IF kind = "None" THEN it + 1 ELSE it

\* A channel without a bound (mpsc::channel): never full.
ChanNeverFull(q) == FALSE

\* mpsc::sync_channel(256): the buffer holds no more than its capacity.
ChanFull(q) == Len(q) >= ChanCap

\* The result of send ignored: the loop goes on.
AfterSendIgnored(ok) == "loop"

\* Where the worker goes after sink.send(): back to the loop, or out.
AfterSend(ok) == IF ok THEN "loop" ELSE "returned"

\* finish that leaves the slot as it was.
FinishSkip(slot, s) == slot

\* AnalysisSink::finish: the slot after the write.
FinishWrite(slot, s) == s

\* The sender outliving finish.
TxKept == tx_alive

\* finish takes the sink by value: when it returns the sender is dropped.
TxAfterFinish == FALSE

\* One pass of the loop body up to the send: the guard holds and
\* search.step() is called.
WorkerStep ==
    /\ pc = "loop"
    /\ LoopGuard
    /\ \E o \in StepOutcomes :
        /\ SearchStep(o)
        /\ step_calls' = step_calls + 1
        /\ iteration' = NextIteration(o.kind, iteration)
        /\ CASE o.kind = "Changed" ->
                  /\ global_min' = Min(o.rating, global_min)
                  /\ pending' = MkMsg(o.move_id, iteration, o.rating, o.trace)
                  /\ pc' = "send"
                  /\ UNCHANGED none_steps
             [] o.kind = "None" ->
                  /\ none_steps' = none_steps + 1
                  /\ UNCHANGED <<global_min, pending, pc>>
             [] o.kind = "Err" ->
                  /\ pc' = "finish"
                  /\ UNCHANGED <<global_min, pending, none_steps>>
    /\ UNCHANGED <<eval_vars, handle_vars, chan, stats, tx_alive, search_limit, sent,
                   send_fails, finish_calls, finish_arg>>

\* The loop guard fails: the node limit is reached.
WorkerLimit ==
    /\ pc = "loop"
    /\ ~LoopGuard
    /\ pc' = "finish"
    /\ UNCHANGED <<eval_vars, handle_vars, chan, stats, tx_alive, search_limit,
                   iteration, global_min, pending, node_count, best, sent,
                   step_calls, none_steps, send_fails, finish_calls,
                   finish_arg>>

\* sink.send(msg): fails once the receiver is gone, blocks while the
\* channel is full, and otherwise queues the message.
WorkerSend ==
    /\ pc = "send"
    /\ IF ~rx_alive
       THEN /\ pc' = AfterSend(FALSE)
            /\ send_fails' = send_fails + 1
            \* returning drops the sink
            /\ tx_alive' = (AfterSend(FALSE) # "returned")
            /\ UNCHANGED <<chan, sent>>
       ELSE /\ ~ChanFull(chan)
            /\ chan' = Append(chan, pending)
            /\ sent' = Append(sent, pending)
            /\ pc' = AfterSend(TRUE)
            /\ UNCHANGED <<send_fails, tx_alive>>
    /\ pending' = NoMsg
    /\ UNCHANGED <<eval_vars, handle_vars, stats, search_limit, iteration, global_min,
                   node_count, best, step_calls, none_steps, finish_calls,
                   finish_arg>>

\* sink.finish(Stats { .. }): the stats slot is written.
WorkerFinish ==
    /\ pc = "finish"
    /\ LET s == MkStats(iteration, node_count)
       IN  /\ finish_arg' = s
           /\ stats' = FinishWrite(stats, s)
    /\ finish_calls' = finish_calls + 1
    /\ pc' = "drop"
    /\ UNCHANGED <<eval_vars, handle_vars, chan, tx_alive, search_limit, iteration,
                   global_min, pending, node_count, best, sent, step_calls,
                   none_steps, send_fails>>

\* finish returns: the sink it consumed, and with it the sender, is dropped.
WorkerDrop ==
    /\ pc = "drop"
    /\ tx_alive' = TxAfterFinish
    /\ pc' = "done"
    /\ UNCHANGED <<eval_vars, handle_vars, chan, stats, search_limit, iteration,
                   global_min, pending, node_count, best, sent, step_calls,
                   none_steps, send_fails, finish_calls, finish_arg>>

\* ---------------------------------------------------------------- consumer

\* Analysis::poll.
Poll ==
    /\ rx_alive
    /\ cpc = "idle"
    /\ LET r == TryRecv(chan, tx_alive)
       IN  CASE r = "Ok" ->
                  /\ moves' = Recv(moves, Head(chan))
                  /\ chan' = Tail(chan)
                  /\ n_recv' = n_recv + 1
                  /\ last' = [op |-> "poll", res |-> "Some",
                              id |-> Head(chan).move_id]
                  /\ UNCHANGED done_seen
             [] r = "Empty" ->
                  /\ last' = [op |-> "poll", res |-> "None", id |-> 0]
                  /\ UNCHANGED <<moves, chan, n_recv, done_seen>>
             [] r = "Disconnected" ->
                  /\ last' = [op |-> "poll", res |-> "Done", id |-> 0]
                  /\ done_seen' = TRUE
                  /\ UNCHANGED <<moves, chan, n_recv>>
    /\ UNCHANGED <<eval_vars, rx_alive, cpc, stats, tx_alive, search_limit,
                   worker_vars, sent>>

\* Analysis::wait is entered.
WaitCall ==
    /\ rx_alive
    /\ cpc = "idle"
    /\ cpc' = "waiting"
    /\ UNCHANGED <<eval_vars, moves, rx_alive, last, done_seen, n_recv, chan, stats,
                   tx_alive, search_limit, worker_vars, sent>>

\* One turn of wait's loop: rx.recv() returned Ok(msg).
WaitRecv ==
    /\ cpc = "waiting"
    /\ chan # <<>>
    /\ moves' = Recv(moves, Head(chan))
    /\ chan' = Tail(chan)
    /\ n_recv' = n_recv + 1
    /\ UNCHANGED <<eval_vars, rx_alive, cpc, last, done_seen, stats, tx_alive,
                   search_limit, worker_vars, sent>>

\* The loop left as soon as nothing is buffered (try_recv in place of recv).
RecvEmpty == chan = <<>>

\* rx.recv() returns Err: nothing is buffered and the sender is gone.
RecvDisconnected == chan = <<>> /\ ~tx_alive

\* wait's loop ends and wait returns.
WaitReturn ==
    /\ cpc = "waiting"
    /\ RecvDisconnected
    /\ cpc' = "idle"
    /\ last' = [op |-> "wait", res |-> "Unit", id |-> 0]
    /\ UNCHANGED <<eval_vars, moves, rx_alive, done_seen, n_recv, chan, stats,
                   tx_alive, search_limit, worker_vars, sent>>

\* The consumer drops the handle: its move table and its receiver go, and
\* with the receiver whatever the channel still buffered.
DropHandle ==
    /\ rx_alive
    /\ cpc = "idle"
    /\ rx_alive' = FALSE
    /\ moves' = <<>>
    /\ chan' = <<>>
    /\ last' = [op |-> "drop", res |-> "none", id |-> 0]
    /\ UNCHANGED <<eval_vars, cpc, done_seen, n_recv, stats, tx_alive, search_limit,
                   worker_vars, sent>>

\* ----------------------------------------------------------- specification

\* spawn: Analysis::new, then the worker thread starts `analysis`.
AnalysisInit ==
    /\ moves = <<>>
    /\ rx_alive = TRUE
    /\ cpc = "idle"
    /\ last = [op |-> "none", res |-> "none", id |-> 0]
    /\ done_seen = FALSE
    /\ chan = <<>>
    /\ stats = NoStats
    /\ tx_alive = TRUE
    /\ pc = "loop"
    /\ search_limit \in 0..MaxLimit
    /\ iteration = 0
    /\ global_min = I64Max
    /\ pending = NoMsg
    /\ node_count = 0
    /\ best = [m \in MoveIds |-> I64Max]
    /\ sent = <<>>
    /\ n_recv = 0
    /\ step_calls = 0
    /\ none_steps = 0
    /\ send_fails = 0
    /\ finish_calls = 0
    /\ finish_arg = NoStats

\* No Orientation is being turned.
OrientIdle == orient = "R0" /\ origin = "R0" /\ turns = <<>>

\* No intersecting_ranges iterator exists.
RangesIdle ==
    /\ xs = <<>>
    /\ ys = <<>>
    /\ i1 = 0
    /\ i2 = 0
    /\ pairs = <<>>
    /\ it_done = FALSE

\* Option::None of covered_hole, and no call made yet.
NoHole == [some |-> FALSE, row |-> 0, res |-> [start |-> 0, end |-> 0]]
NotCalled == [called |-> FALSE, out |-> NoHole, prior |-> <<>>]

\* gaps_contiguous_areas has not been called.
NoAreas == [called |-> FALSE, out |-> <<>>]

\* No gaps are being joined.
AreasIdle == gap_rows = <<>> /\ area_call = NoAreas

\* score has not returned.
NoResult == [none |-> TRUE]

\* score is not running.
ScoreIdle ==
    /\ arg = <<>>
    /\ score = 0
    /\ depth = 0
    /\ sc_pc = "call"
    /\ result = NoResult

\* No matrix is being looked at.
MatrixIdle ==
    /\ matrix = <<>>
    /\ residue_buf = <<>>
    /\ hole = NotCalled
    /\ ScoreIdle

Init ==
    /\ AnalysisInit
    /\ mode = "analysis"
    /\ OrientIdle
    /\ RangesIdle
    /\ AreasIdle
    /\ MatrixIdle

Worker == WorkerStep \/ WorkerLimit \/ WorkerSend \/ WorkerFinish \/ WorkerDrop

Consumer == Poll \/ WaitCall \/ WaitRecv \/ WaitReturn \/ DropHandle

Next == Worker \/ Consumer

Spec == Init /\ [][Next]_vars

\* The worker thread is scheduled; a consumer that has not dropped the
\* handle keeps polling, and a wait() in progress keeps receiving.
FairSpec ==
    /\ Spec
    /\ WF_vars(Worker)
    /\ WF_vars(Poll)
    /\ WF_vars(WaitRecv)
    /\ WF_vars(WaitReturn)

\* ------------------------------------------------------------- Orientation

MaxTurns == 3

Orientations == {"R0", "R1", "R2", "R3"}

\* A cw that leaves R3 where it is.
CwStuck(o) ==
    CASE o = "R0" -> "R1"
      [] o = "R1" -> "R2"
      [] o = "R2" -> "R3"
      [] o = "R3" -> "R3"

\* Orientation::cw
Cw(o) ==
    CASE o = "R0" -> "R1"
      [] o = "R1" -> "R2"
      [] o = "R2" -> "R3"
      [] o = "R3" -> "R0"

\* Orientation::ccw
Ccw(o) ==
    CASE o = "R0" -> "R3"
      [] o = "R1" -> "R0"
      [] o = "R2" -> "R1"
      [] o = "R3" -> "R2"

\* Orientation::flip
Flip(o) ==
    CASE o = "R0" -> "R2"
      [] o = "R1" -> "R3"
      [] o = "R2" -> "R0"
      [] o = "R3" -> "R1"

OrientInit ==
    /\ mode = "orient"
    /\ origin \in Orientations
    /\ orient = origin
    /\ turns = <<>>
    /\ RangesIdle
    /\ AreasIdle
    /\ MatrixIdle

TurnCw ==
    /\ mode = "orient"
    /\ Len(turns) < MaxTurns
    /\ orient' = Cw(orient)
    /\ turns' = Append(turns, "cw")
    /\ UNCHANGED <<analysis_vars, areas_vars, mode, origin, ranges_vars, matrix_vars,
                   score_vars>>

TurnCcw ==
    /\ mode = "orient"
    /\ Len(turns) < MaxTurns
    /\ orient' = Ccw(orient)
    /\ turns' = Append(turns, "ccw")
    /\ UNCHANGED <<analysis_vars, areas_vars, mode, origin, ranges_vars, matrix_vars,
                   score_vars>>

TurnFlip ==
    /\ mode = "orient"
    /\ Len(turns) < MaxTurns
    /\ orient' = Flip(orient)
    /\ turns' = Append(turns, "flip")
    /\ UNCHANGED <<analysis_vars, areas_vars, mode, origin, ranges_vars, matrix_vars,
                   score_vars>>

\* ----------------------------------------------------- intersecting_ranges

MaxCoord == 4

Max(a, b) == IF a > b THEN a ELSE b

\* Range<T>: the half-open range start..end.
Rng(a, b) == [start |-> a, end |-> b]

\* The ordered lists of non-overlapping, non-empty ranges that start at
\* `from` or later and end at MaxCoord or earlier.
RECURSIVE RangeListsFrom(_)
RangeListsFrom(from) ==
    {<<>>} \cup
    UNION {UNION {{<<Rng(a, b)>> \o rest : rest \in RangeListsFrom(b)}
                  : b \in (a + 1)..MaxCoord}
           : a \in from..(MaxCoord - 1)}

RangeLists == RangeListsFrom(0)

\* r2.start > r1.end: a range that touches r1 is not taken to lie after it.
StartsAfterStrict(r1, r2) == r2.start > r1.end

\* r2.start >= r1.end
StartsAfter(r1, r2) == r2.start >= r1.end

\* One call of the closure of intersecting_ranges with the indices at a, b:
\* what it returns and where it leaves the indices.
RECURSIVE NextPair(_, _, _, _)
NextPair(rs1, rs2, a, b) ==
    IF a >= Len(rs1) \/ b >= Len(rs2)
    THEN [some |-> FALSE, pair |-> <<>>, i1 |-> a, i2 |-> b]
    ELSE LET r1 == rs1[a + 1]
             r2 == rs2[b + 1]
         IN  IF StartsAfter(r1, r2) THEN NextPair(rs1, rs2, a + 1, b)
             ELSE IF StartsAfter(r2, r1) THEN NextPair(rs1, rs2, a, b + 1)
             ELSE IF r2.end >= r1.end
                  THEN [some |-> TRUE, pair |-> <<a, b>>,
                        i1 |-> a + 1, i2 |-> b]
                  ELSE [some |-> TRUE, pair |-> <<a, b>>,
                        i1 |-> a, i2 |-> b + 1]

\* The iterator run to its end from the indices a, b.
RECURSIVE CollectPairs(_, _, _, _)
CollectPairs(rs1, rs2, a, b) ==
    LET n == NextPair(rs1, rs2, a, b)
    IN  IF n.some THEN <<n.pair>> \o CollectPairs(rs1, rs2, n.i1, n.i2)
        ELSE <<>>

\* intersecting_ranges(xs, ys), collected.
IntersectingRanges(rs1, rs2) == CollectPairs(rs1, rs2, 0, 0)

RangesInit ==
    /\ mode = "ranges"
    /\ xs \in RangeLists
    /\ ys \in RangeLists
    /\ i1 = 0
    /\ i2 = 0
    /\ pairs = <<>>
    /\ it_done = FALSE
    /\ OrientIdle
    /\ MatrixIdle
    /\ AreasIdle

\* Iterator::next on the value intersecting_ranges returned.
IterNext ==
    /\ mode = "ranges"
    /\ ~it_done
    /\ LET n == NextPair(xs, ys, i1, i2)
       IN  /\ i1' = n.i1
           /\ i2' = n.i2
           /\ pairs' = IF n.some THEN Append(pairs, n.pair) ELSE pairs
           /\ it_done' = ~n.some
    /\ UNCHANGED <<analysis_vars, areas_vars, mode, orient_vars, xs, ys, matrix_vars,
                   score_vars>>

\* ------------------------------------------------------------- BasicMatrix

MaxCols == 2
MaxRows == 4

\* The matrices of MaxCols columns and up to MaxRows rows: row i of the
\* program is element i + 1, held as the set of its filled columns.
Matrices == UNION {[1..n -> SUBSET (0..(MaxCols - 1))] : n \in 0..MaxRows}

\* BasicMatrix::rows, cols, get
Rows(mat) == Len(mat)
Cols(mat) == MaxCols
Get(mat, i, j) == j \in mat[i + 1]

\* ------------------------------------------------------------ covered_hole

\* A clear that leaves the vector as it is.
ClearKeep(v) == v

\* Vec::clear
Clear(v) == <<>>

\* Vec::resize(n, x): cut to n elements, or filled up to n with x.
Resize(v, n, x) == [k \in 1..n |-> IF k <= Len(v) THEN v[k] ELSE x]

\* What covered_hole returns, with the buffer as it leaves it.
HoleOut(some, row, res, buf) ==
    [out |-> [some |-> some, row |-> row, res |-> res], buf |-> buf]

\* A floor check that reports nothing.
FloorCheckSkip(buf, j) == HoleOut(FALSE, 0, Rng(0, 0), buf)

\* The loop after the scan, from column j: a column whose residue does not
\* reach row 0.
RECURSIVE FloorCheck(_, _)
FloorCheck(buf, j) ==
    IF j >= Len(buf) THEN HoleOut(FALSE, 0, Rng(0, 0), buf)
    ELSE IF buf[j + 1].start > 0 THEN HoleOut(TRUE, 0, buf[j + 1], buf)
    ELSE FloorCheck(buf, j + 1)

\* The scan that visits the columns of a row from the last to the first.
RECURSIVE ScanDescending(_, _, _, _)
ScanDescending(mat, buf, i, j) ==
    IF i < 0 THEN FloorCheck(buf, 0)
    ELSE IF j >= Cols(mat) THEN ScanDescending(mat, buf, i - 1, 0)
    ELSE LET c == Cols(mat) - 1 - j
         IN  IF ~Get(mat, i, c) THEN ScanDescending(mat, buf, i, j + 1)
             ELSE LET res == buf[c + 1]
                  IN  IF res.start > i + 1
                      THEN HoleOut(TRUE, i + 1, res, buf)
                      ELSE ScanDescending(
                               mat,
                               [buf EXCEPT
                                   ![c + 1] = Rng(i, Max(i + 1, res.end))],
                               i, j + 1)

\* The nested loops of covered_hole from cell (i, j) on: rows downwards from
\* the top, the columns of a row upwards.
RECURSIVE Scan(_, _, _, _)
Scan(mat, buf, i, j) ==
    IF i < 0 THEN FloorCheck(buf, 0)
    ELSE IF j >= Cols(mat) THEN Scan(mat, buf, i - 1, 0)
    ELSE IF ~Get(mat, i, j) THEN Scan(mat, buf, i, j + 1)
    ELSE LET res == buf[j + 1]
         IN  IF res.start > i + 1
             THEN HoleOut(TRUE, i + 1, res, buf)
             ELSE Scan(mat,
                       [buf EXCEPT ![j + 1] = Rng(i, Max(i + 1, res.end))],
                       i, j + 1)

\* covered_hole(mat, buf)
CoveredHole(mat, buf) ==
    Scan(mat, Resize(Clear(buf), Cols(mat), Rng(0, 0)), Rows(mat) - 1, 0)

\* The buffers a call can be handed: a new one, or the one left by a call
\* on the matrix of MaxRows rows of which only the top row is filled.
PriorBufs ==
    {<<>>, [k \in 1..MaxCols |-> Rng(MaxRows - 1, MaxRows)]}

HoleInit ==
    /\ mode = "hole"
    /\ matrix \in Matrices
    /\ residue_buf \in PriorBufs
    /\ hole = NotCalled
    /\ ScoreIdle
    /\ OrientIdle
    /\ RangesIdle
    /\ AreasIdle

\* A call covered_hole(&matrix, &mut residue_buf).
CoveredHoleCall ==
    /\ mode = "hole"
    /\ ~hole.called
    /\ LET r == CoveredHole(matrix, residue_buf)
       IN  /\ hole' = [called |-> TRUE, out |-> r.out, prior |-> residue_buf]
           /\ residue_buf' = r.buf
    /\ UNCHANGED <<analysis_vars, areas_vars, mode, orient_vars, ranges_vars, matrix,
                   score_vars>>

\* -------------------------------------------------------- negative_spaces

\* BasicMatrix::insert_empty_bottom_row
InsertEmptyBottomRow(mat) == <<{}>> \o mat

\* BasicMatrix::remove_rows(a..b): the rows above come down.
RemoveRows(mat, a, b) ==
    IF a >= b THEN mat
    ELSE SubSeq(mat, 1, a) \o SubSeq(mat, b + 1, Len(mat))

\* The maximal runs of columns from j up to w that are not in `row`, in
\* order.
RECURSIVE RunsWithin(_, _, _)
RunsWithin(row, j, w) ==
    IF j >= w THEN <<>>
    ELSE IF j \in row THEN RunsWithin(row, j + 1, w)
    ELSE LET e == CHOOSE k \in (j + 1)..w :
                      /\ k = w \/ k \in row
                      /\ \A l \in j..(k - 1) : l \notin row
         IN  <<Rng(j, e)>> \o RunsWithin(row, e, w)

\* The same for a row of a matrix.
RunsFrom(row, j) == RunsWithin(row, j, MaxCols)

\* BasicMatrix::gaps(i)
Gaps(mat, i) == RunsFrom(mat[i + 1], 0)

\* UF::new_reflexive, UF::union, UF::find: every element maps to the
\* representative of its class.
NewReflexive(n) == [k \in 0..(n - 1) |-> k]
Union(uf, a, b) == [k \in DOMAIN uf |-> IF uf[k] = uf[b] THEN uf[a] ELSE uf[k]]
Find(uf, a) == uf[a]

\* The first loop of gaps_contiguous_areas: the gaps of all rows in one
\* list, and the length of that list after each row.
RECURSIVE Flatten(_)
Flatten(rows) == IF rows = <<>> THEN <<>> ELSE Head(rows) \o Flatten(Tail(rows))

RowEndIdxs(rows) == [k \in 1..Len(rows) |-> Len(Flatten(SubSeq(rows, 1, k)))]

\* The unions made between the positions within the rows, without the
\* offsets of the rows in the list of all gaps.
RECURSIVE UnionPairsNoOffset(_, _, _, _)
UnionPairsNoOffset(uf, ps, idx0, idx1) ==
    IF ps = <<>> THEN uf
    ELSE UnionPairsNoOffset(Union(uf, Head(ps)[1], Head(ps)[2]),
                            Tail(ps), idx0, idx1)

\* The unions of one pair of neighbouring rows.
RECURSIVE UnionPairs(_, _, _, _)
UnionPairs(uf, ps, idx0, idx1) ==
    IF ps = <<>> THEN uf
    ELSE UnionPairs(Union(uf, idx0 + Head(ps)[1], idx1 + Head(ps)[2]),
                    Tail(ps), idx0, idx1)

\* The second loop of gaps_contiguous_areas, from the k-th row end on.
RECURSIVE LinkRows(_, _, _, _, _, _)
LinkRows(uf, gaps, ends, k, idx0, idx1) ==
    IF k > Len(ends) THEN uf
    ELSE LET idx2 == ends[k]
             linked ==
                 IF idx0 < UsizeMax
                 THEN UnionPairs(uf,
                                 IntersectingRanges(
                                     SubSeq(gaps, idx0 + 1, idx1),
                                     SubSeq(gaps, idx1 + 1, idx2)),
                                 idx0, idx1)
                 ELSE uf
         IN  LinkRows(linked, gaps, ends, k + 1, idx1, idx2)

\* The sum of the lengths of the gaps from the k-th on whose class is r.
RECURSIVE AreaOf(_, _, _, _)
AreaOf(uf, gaps, r, k) ==
    IF k > Len(gaps) THEN 0
    ELSE (IF Find(uf, k - 1) = r THEN gaps[k].end - gaps[k].start ELSE 0)
         + AreaOf(uf, gaps, r, k + 1)

\* The elements of a list that are above 0, in order.
RECURSIVE Positive(_)
Positive(q) ==
    IF q = <<>> THEN <<>>
    ELSE (IF Head(q) > 0 THEN <<Head(q)>> ELSE <<>>) \o Positive(Tail(q))

\* gaps_contiguous_areas(iter), collected.
GapsContiguousAreas(rows) ==
    LET gaps == Flatten(rows)
        uf == LinkRows(NewReflexive(Len(gaps)), gaps, RowEndIdxs(rows),
                       1, UsizeMax, 0)
    IN  Positive([k \in 1..Len(gaps) |-> AreaOf(uf, gaps, k - 1, 1)])

\* negative_spaces(matrix, a..b), collected.
NegativeSpaces(mat, a, b) ==
    GapsContiguousAreas([k \in 1..(IF b > a THEN b - a ELSE 0)
                            |-> Gaps(mat, a + k - 1)])

MaxGapCols == 3
MaxGapRows == 3

\* The rows gaps_contiguous_areas is handed: up to MaxGapRows rows of
\* MaxGapCols cells, each as the list of its gaps.
GapRowLists ==
    UNION {[1..n -> {RunsWithin(cells, 0, MaxGapCols) :
                        cells \in SUBSET (0..(MaxGapCols - 1))}]
           : n \in 0..MaxGapRows}

AreasInit ==
    /\ mode = "areas"
    /\ gap_rows \in GapRowLists
    /\ area_call = NoAreas
    /\ OrientIdle
    /\ RangesIdle
    /\ MatrixIdle

\* A call gaps_contiguous_areas(gap_rows), collected.
AreasCall ==
    /\ mode = "areas"
    /\ ~area_call.called
    /\ area_call' = [called |-> TRUE, out |-> GapsContiguousAreas(gap_rows)]
    /\ UNCHANGED <<analysis_vars, mode, orient_vars, ranges_vars, matrix_vars,
                   score_vars, gap_rows>>

\* ------------------------------------------------------------------- score

MaxFactor == 1

\* ScoreParams::default()
DefaultParams ==
    [row_factor |-> 0, piece_estimate_factor |-> 3, piece_penalty |-> 4]

\* The ScoreParams score is called with.
ParamSet ==
    {DefaultParams} \cup
    {[row_factor |-> rf, piece_estimate_factor |-> pf, piece_penalty |-> 4] :
        rf \in 0..MaxFactor, pf \in 0..MaxFactor}

RECURSIVE Sum(_)
Sum(q) == IF q = <<>> THEN 0 ELSE Head(q) + Sum(Tail(q))

\* The estimate of the pieces that fill the negative spaces of rows a..b.
Pieces(mat, a, b) ==
    LET areas == NegativeSpaces(mat, a, b)
    IN  Sum([k \in 1..Len(areas) |-> (areas[k] + 3) \div 4])

\* A covered_hole that does not look at the top row.
CoveredHoleBelowTop(mat, buf) ==
    Scan(mat, Resize(Clear(buf), Cols(mat), Rng(0, 0)), Rows(mat) - 2, 0)

\* The call of covered_hole in the condition of score's loop.
LoopCond(mat, buf) == CoveredHole(mat, buf)

\* A pass of the loop that counts and removes the rows from the hole's own
\* row on: i..res.end.
LoopStepFromHole(mat, sc, d, buf) ==
    LET r == LoopCond(mat, buf)
        a == r.out.row
        b == r.out.res.end
    IN  IF r.out.some
        THEN [cont |-> TRUE, out |-> r.out,
              matrix |-> RemoveRows(mat, a, b),
              score |-> sc + Max(1, Pieces(mat, a, b) - d),
              depth |-> d + 1,
              buf |-> r.buf]
        ELSE [cont |-> FALSE, out |-> r.out, matrix |-> mat, score |-> sc,
              depth |-> d, buf |-> r.buf]

\* One pass of score's `while let`: the condition, and the body when the
\* condition gave Some.
LoopStep(mat, sc, d, buf) ==
    LET r == LoopCond(mat, buf)
        a == r.out.row + 1
        b == r.out.res.end
    IN  IF r.out.some
        THEN [cont |-> TRUE, out |-> r.out,
              matrix |-> RemoveRows(mat, a, b),
              score |-> sc + Max(1, Pieces(mat, a, b) - d),
              depth |-> d + 1,
              buf |-> r.buf]
        ELSE [cont |-> FALSE, out |-> r.out, matrix |-> mat, score |-> sc,
              depth |-> d, buf |-> r.buf]

\* The value with the two factors taken for each other.
ScoreValueSwapped(params, sc, rows) ==
    sc * params.row_factor + rows * params.piece_estimate_factor

\* score's last expression.
ScoreValue(params, sc, rows) ==
    sc * params.piece_estimate_factor + rows * params.row_factor

\* score's loop run to its end.
RECURSIVE RunLoop(_, _, _, _)
RunLoop(mat, sc, d, buf) ==
    LET st == LoopStep(mat, sc, d, buf)
    IN  IF st.cont THEN RunLoop(st.matrix, st.score, st.depth, st.buf)
        ELSE [score |-> sc, rows |-> Rows(mat)]

\* score(params, matrix)
Score(params, mat) ==
    LET e == RunLoop(InsertEmptyBottomRow(mat), 0, 0, <<>>)
    IN  ScoreValue(params, e.score, e.rows)

\* The matrices score is called with: with the bottom row score inserts
\* they have up to MaxRows rows.
ScoreArgs == {mat \in Matrices : Rows(mat) < MaxRows}

ScoreInit ==
    /\ mode = "score"
    /\ arg \in ScoreArgs
    /\ matrix = <<>>
    /\ residue_buf = <<>>
    /\ hole = NotCalled
    /\ score = 0
    /\ depth = 0
    /\ sc_pc = "call"
    /\ result = NoResult
    /\ OrientIdle
    /\ RangesIdle
    /\ AreasIdle

\* score up to its loop: the clone, the empty bottom row, the new buffer.
ScoreCall ==
    /\ mode = "score"
    /\ sc_pc = "call"
    /\ matrix' = InsertEmptyBottomRow(arg)
    /\ score' = 0
    /\ depth' = 0
    /\ residue_buf' = <<>>
    /\ sc_pc' = "loop"
    /\ UNCHANGED <<analysis_vars, areas_vars, mode, orient_vars, ranges_vars, hole, arg,
                   result>>

\* One pass of the loop in which covered_hole finds a hole.
ScoreIter ==
    /\ mode = "score"
    /\ sc_pc = "loop"
    /\ LET st == LoopStep(matrix, score, depth, residue_buf)
       IN  /\ st.cont
           /\ matrix' = st.matrix
           /\ score' = st.score
           /\ depth' = st.depth
           /\ residue_buf' = st.buf
           /\ hole' = [called |-> TRUE, out |-> st.out, prior |-> residue_buf]
    /\ UNCHANGED <<analysis_vars, areas_vars, mode, orient_vars, ranges_vars, arg, sc_pc,
                   result>>

\* covered_hole finds nothing and score returns. The ScoreParams are read
\* here for the first time, so the call's choice of them is made here.
ScoreReturn ==
    /\ mode = "score"
    /\ sc_pc = "loop"
    /\ LET st == LoopStep(matrix, score, depth, residue_buf)
       IN  /\ ~st.cont
           /\ residue_buf' = st.buf
           /\ hole' = [called |-> TRUE, out |-> st.out, prior |-> residue_buf]
    /\ \E params \in ParamSet :
          result' = [params |-> params,
                     value |-> ScoreValue(params, score, Rows(matrix))]
    /\ sc_pc' = "returned"
    /\ UNCHANGED <<analysis_vars, areas_vars, mode, orient_vars, ranges_vars, matrix, arg,
                   score, depth>>

\* ------------------------------------------------ the pure functions, run

EvalInit ==
    /\ AnalysisInit
    /\ search_limit = 0
    /\ (OrientInit \/ RangesInit \/ HoleInit \/ ScoreInit \/ AreasInit)

EvalNext ==
    \/ TurnCw
    \/ TurnCcw
    \/ TurnFlip
    \/ IterNext
    \/ CoveredHoleCall
    \/ ScoreCall
    \/ ScoreIter
    \/ ScoreReturn
    \/ AreasCall

EvalSpec == EvalInit /\ [][EvalNext]_vars

\* ------------------------------------------------------------------ claims

\* A step in which a call of poll() completes: the consumer is outside
\* wait() before and after, and either the reported result or the number of
\* received messages changes.
PollStep ==
    /\ cpc = "idle"
    /\ cpc' = "idle"
    /\ rx_alive'
    /\ last'.op = "poll"
    /\ (last' # last \/ n_recv' # n_recv)

\* The table that holds, for every MoveId of q, the last record of q for it.
LastIndex(q, m) ==
    CHOOSE i \in 1..Len(q) :
        /\ q[i].move_id = m
        /\ \A j \in (i + 1)..Len(q) : q[j].move_id # m

Table(q) ==
    [m \in {q[i].move_id : i \in 1..Len(q)} |-> q[LastIndex(q, m)].mov]

\* C1: poll() returns Err(AnalysisDone) exactly when the sender has been
\* dropped and no message is buffered; once it has returned
\* Err(AnalysisDone) every later poll() does; and when it does, every message
\* the worker sent has been delivered.
C1_PollDone ==
    /\ [][PollStep => (last'.res = "Done" <=> (~tx_alive /\ chan = <<>>))]_vars
    /\ [][(done_seen /\ PollStep) => last'.res = "Done"]_vars
    /\ [](done_seen => n_recv = Len(sent))

\* C1 witness: Done was reported after two messages had been delivered.
C1_Witness == done_seen /\ last.res = "Done" /\ n_recv >= 2

\* C2: no update applied by poll() or wait() replaces the record of a MoveId
\* by one with a higher rating.
C2_RatingNonIncreasing ==
    [][\A m \in (DOMAIN moves) \cap (DOMAIN moves') :
          moves'[m].rating <= moves[m].rating]_vars

\* C2 witness: a record of the table has replaced an earlier one of the same
\* move with a higher rating.
C2_Witness ==
    /\ rx_alive
    /\ \E i \in 1..n_recv :
          /\ sent[i].move_id \in DOMAIN moves
          /\ moves[sent[i].move_id].rating < sent[i].mov.rating

Reverse(o) ==
    CASE o = "Less" -> "Greater"
      [] o = "Greater" -> "Less"
      [] OTHER -> "Equal"

\* C3: cmp is a strict total order on the known MoveIds: cmp(a, b) = Equal
\* exactly when a = b, and cmp(a, b) is the reverse of cmp(b, a).
C3_CmpStrictTotal ==
    \A a, b \in AllMoves :
        /\ (Cmp(a, b) = "Equal" <=> a = b)
        /\ Cmp(a, b) = Reverse(Cmp(b, a))

\* C4: a send attempted after the handle was dropped fails and ends the
\* worker at once: no further step(), no finish, the stats slot stays None,
\* and there is at most one such attempt.
C4_Cancel ==
    /\ [][(~rx_alive /\ pc = "send" /\ pc' # "send") =>
            /\ pc' = "returned"
            /\ send_fails' = send_fails + 1
            /\ sent' = sent
            /\ stats' = NoStats]_vars
    /\ [][pc = "returned" =>
            /\ pc' = "returned"
            /\ step_calls' = step_calls
            /\ finish_calls' = finish_calls
            /\ send_fails' = send_fails
            /\ stats' = stats]_vars
    /\ [](pc = "returned" =>
            /\ ~rx_alive
            /\ ~tx_alive
            /\ stats = NoStats
            /\ finish_calls = 0)
    /\ [](send_fails <= 1)

\* C4 witness: the worker returned on a failed send with nodes left to
\* expand.
C4_Witness ==
    /\ pc = "returned"
    /\ send_fails = 1
    /\ node_count < search_limit
    /\ Len(sent) >= 1

\* C5: the worker always terminates; when it ends by exhaustion or at the
\* node limit it has called finish exactly once and closed the channel, it
\* ends without finish only after the handle was dropped, and a consumer that
\* keeps the handle gets Err(AnalysisDone) from poll() or sees wait() return.
C5_Terminates ==
    /\ <>(pc \in {"done", "returned"})
    /\ [](pc = "done" => finish_calls = 1 /\ ~tx_alive /\ stats # NoStats)
    /\ [](pc = "returned" => ~rx_alive)
    /\ <>(~rx_alive \/ done_seen \/ last.op = "wait")
    /\ [](rx_alive /\ last.op = "wait" => TryRecv(chan, tx_alive) = "Disconnected")

\* C5 witness: the node limit ended the search, finish ran, and the consumer
\* got Done after receiving a message.
C5_Witness ==
    /\ pc = "done"
    /\ finish_calls = 1
    /\ search_limit > 0
    /\ node_count = search_limit
    /\ done_seen
    /\ n_recv >= 1

\* C6: once wait() has returned, the sender is closed and nothing is
\* buffered, so poll() yields Err(AnalysisDone), and the table holds for each
\* MoveId the last record the worker sent for it.
C6_WaitDrains ==
    last.op = "wait" =>
        /\ TryRecv(chan, tx_alive) = "Disconnected"
        /\ n_recv = Len(sent)
        /\ moves = Table(sent)

\* C6 witness: wait() returned after a move was sent more than once.
C6_Witness ==
    /\ last.op = "wait"
    /\ Len(sent) >= 2
    /\ Cardinality(DOMAIN moves) < Len(sent)

\* C7 as stated: messages are delivered in send order without loss or
\* duplication, and the table always holds the last record sent for each id.
C7_TableIsLastSent ==
    rx_alive =>
        /\ chan = SubSeq(sent, n_recv + 1, Len(sent))
        /\ moves = Table(sent)

\* C7 amended: messages are delivered in send order without loss or
\* duplication, and the table always holds, for each id, the last record
\* among the messages delivered so far (the last record sent once the
\* channel is empty).
C7_Fifo ==
    rx_alive =>
        /\ chan = SubSeq(sent, n_recv + 1, Len(sent))
        /\ moves = Table(SubSeq(sent, 1, n_recv))

\* C7 witness: one message has been delivered while two different messages
\* are still buffered.
C7_Witness ==
    /\ rx_alive
    /\ Len(chan) = 2
    /\ chan[1] # chan[2]
    /\ n_recv >= 1

\* C8: the iteration stamps of the messages never decrease in send order;
\* a message is stamped with the counter at the moment of the send; and the
\* counter is the number of step() calls that returned Ok(None).
C8_IterationMonotone ==
    /\ \A i, j \in 1..Len(sent) :
          i <= j => sent[i].mov.iteration <= sent[j].mov.iteration
    /\ pc = "send" =>
          /\ pending.mov.iteration = iteration
          /\ \A i \in 1..Len(sent) : sent[i].mov.iteration <= iteration
    /\ iteration = none_steps

\* C8 witness: a message sent after an Ok(None) step carries a later stamp
\* than the message sent before it.
C8_Witness ==
    /\ Len(sent) >= 2
    /\ sent[1].mov.iteration < sent[2].mov.iteration
    /\ iteration = 1

\* C9: stats() is None until the worker calls finish, is the value passed to
\* finish from then on, and the slot is written at most once.
C9_StatsOnce ==
    /\ [](finish_calls = 0 => Stats = NoStats)
    /\ [](finish_calls > 0 => Stats = finish_arg /\ Stats # NoStats)
    /\ [](finish_calls <= 1)
    /\ [][stats # NoStats => stats' = stats]_vars

\* C9 witness: the handle can read stats that count nodes and iterations.
C9_Witness ==
    /\ rx_alive
    /\ Stats # NoStats
    /\ Stats.nodes >= 2
    /\ Stats.iterations >= 1

\* C10: step() is called only while node_count() < search_limit, so the
\* node count, and the nodes value of Stats, never exceed search_limit.
C10_NodeLimit ==
    /\ [][step_calls' # step_calls => node_count < search_limit]_vars
    /\ [](node_count <= search_limit)
    /\ [](stats # NoStats => stats.nodes <= search_limit)

\* C10 witness: the search was stopped by the node limit.
C10_Witness ==
    /\ stats # NoStats
    /\ search_limit > 0
    /\ stats.nodes = search_limit
    /\ step_calls = search_limit

\* The worker is inside send() and cannot go on: the handle is alive and
\* the channel holds as many messages as its capacity.
SendBlocked == pc = "send" /\ rx_alive /\ Len(chan) = ChanCap

\* C11: the channel never holds more messages than its capacity; with the
\* channel full the worker waits in send() until the consumer receives a
\* message or drops the handle; nothing buffered is lost or overwritten; and
\* a worker that has not ended cannot move only when it waits in send().
C11_Backpressure ==
    /\ [](Len(chan) <= ChanCap)
    /\ [](SendBlocked => ~ENABLED Worker)
    /\ [](pc \notin {"done", "returned"} /\ ~SendBlocked => ENABLED Worker)
    /\ [][(SendBlocked /\ ~SendBlocked') =>
            (n_recv' = n_recv + 1 \/ ~rx_alive')]_vars
    /\ [][(SendBlocked /\ rx_alive') =>
            /\ sent' = sent
            /\ pending' = pending
            /\ (chan' = chan \/ chan' = Tail(chan))]_vars
    /\ [](rx_alive => Len(sent) = n_recv + Len(chan))

\* C11 witness: the worker waits in send() on a full channel.
C11_Witness == SendBlocked /\ n_recv = 0

\* C12: poll() is always able to return; a call that finds a message takes
\* exactly the oldest one, stores its record under its MoveId, leaves every
\* other entry alone and returns Ok(Some(id)); a call that finds the channel
\* empty leaves the table alone and, with the sender alive, returns Ok(None).
C12_PollFrame ==
    /\ [](rx_alive /\ cpc = "idle" => ENABLED Poll)
    /\ [][PollStep =>
            IF chan # <<>>
            THEN /\ last'.res = "Some"
                 /\ last'.id = Head(chan).move_id
                 /\ chan' = Tail(chan)
                 /\ n_recv' = n_recv + 1
                 /\ DOMAIN moves' = (DOMAIN moves) \cup {Head(chan).move_id}
                 /\ moves'[Head(chan).move_id] = Head(chan).mov
                 /\ \A m \in (DOMAIN moves) \ {Head(chan).move_id} :
                       moves'[m] = moves[m]
            ELSE /\ moves' = moves
                 /\ chan' = chan
                 /\ n_recv' = n_recv
                 /\ (tx_alive => last'.res = "None")]_vars

\* C12 witness: poll() has just overwritten the record of one move while
\* the table also holds another move.
C12_Witness ==
    /\ last.op = "poll"
    /\ last.res = "Some"
    /\ n_recv = 3
    /\ Cardinality(DOMAIN moves) = 2

\* C13: once poll() has returned Err(AnalysisDone), no later poll() or
\* wait() changes the move table.
C13_ClosedTableFrozen ==
    [][(done_seen /\ rx_alive') =>
          /\ moves' = moves
          /\ n_recv' = n_recv
          /\ chan' = <<>>]_vars

\* C13 witness: wait() has returned after poll() had reported Done, with
\* records in the table.
C13_Witness ==
    /\ done_seen
    /\ rx_alive
    /\ last.op = "wait"
    /\ Cardinality(DOMAIN moves) = 2

IsPrefix(p, q) == Len(p) <= Len(q) /\ p = SubSeq(q, 1, Len(p))

\* C14: for every known move, suggestion(m, 0) has no inputs and the stored
\* rating; for every k up to the trace length the inputs of suggestion(m, k)
\* are a prefix of those of suggestion(m, usize::MAX); and any len at or
\* above the trace length gives what the trace length gives.
C14_SuggestionPrefix ==
    \A m \in AllMoves :
        LET t == moves[m].trace
            full == Suggestion(m, UsizeMax)
        IN  /\ Suggestion(m, 0) = [inputs |-> <<>>, rating |-> moves[m].rating]
            /\ \A k \in 0..Len(t) :
                  /\ IsPrefix(Suggestion(m, k).inputs, full.inputs)
                  /\ Suggestion(m, k).rating = moves[m].rating
            /\ \A len \in {Len(t), Len(t) + 1, UsizeMax} :
                  Suggestion(m, len) = Suggestion(m, Len(t))

\* C14 witness: a known move whose two-placement trace gives strictly more
\* inputs than its first placement alone, which gives some.
C14_Witness ==
    \E m \in AllMoves :
        /\ Len(moves[m].trace) = 2
        /\ Suggestion(m, 1).inputs # <<>>
        /\ Len(Suggestion(m, 1).inputs) < Len(Suggestion(m, 2).inputs)
        /\ Suggestion(m, 2) = Suggestion(m, UsizeMax)

\* The clockwise quarter turns a list of turns adds up to.
RECURSIVE QuarterTurns(_)
QuarterTurns(ts) ==
    IF ts = <<>> THEN 0
    ELSE QuarterTurns(Tail(ts))
         + (CASE Head(ts) = "cw" -> 1
              [] Head(ts) = "flip" -> 2
              [] Head(ts) = "ccw" -> 3)

\* The orientation n clockwise quarter turns away from o, by position in
\* the cycle R0, R1, R2, R3.
OrientIndex(o) == CHOOSE k \in 0..3 : <<"R0", "R1", "R2", "R3">>[k + 1] = o
Turned(o, n) == <<"R0", "R1", "R2", "R3">>[((OrientIndex(o) + n) % 4) + 1]

\* C17: Orientation is a cyclic group of order 4 under cw: at every
\* orientation reached, ccw undoes cw and cw undoes ccw, flip is cw twice,
\* four cw give the orientation back and one, two or three cw do not; and
\* the orientation reached is the origin turned by the sum of the turns
\* applied, modulo 4.
C17_OrientationGroup ==
    mode = "orient" =>
        /\ Ccw(Cw(orient)) = orient
        /\ Cw(Ccw(orient)) = orient
        /\ Flip(orient) = Cw(Cw(orient))
        /\ Cw(Cw(Cw(Cw(orient)))) = orient
        /\ Cw(orient) # orient
        /\ Cw(Cw(orient)) # orient
        /\ Cw(Cw(Cw(orient))) # orient
        /\ orient = Turned(origin, QuarterTurns(turns))

\* C17 witness: from R3 a flip, a cw and a ccw were applied, passing R0.
C17_Witness ==
    /\ mode = "orient"
    /\ origin = "R3"
    /\ turns = <<"cw", "flip", "ccw">>
    /\ orient = "R1"

\* The index pairs of overlapping ranges of two lists, first index 0.
Overlaps(rs1, rs2) ==
    {p \in (0..(Len(rs1) - 1)) \X (0..(Len(rs2) - 1)) :
        Max(rs1[p[1] + 1].start, rs2[p[2] + 1].start)
            < Min(rs1[p[1] + 1].end, rs2[p[2] + 1].end)}

\* The index pairs of ranges of two lists of which one ends where the other
\* starts.
Touching(rs1, rs2) ==
    {p \in (0..(Len(rs1) - 1)) \X (0..(Len(rs2) - 1)) :
        \/ rs1[p[1] + 1].end = rs2[p[2] + 1].start
        \/ rs2[p[2] + 1].end = rs1[p[1] + 1].start}

Elems(q) == {q[k] : k \in 1..Len(q)}

\* C20: on ordered lists of non-overlapping, non-empty ranges the iterator
\* yields only pairs of overlapping ranges, in strictly ascending order by
\* first then second index (so each once), never a pair of touching ranges,
\* nothing when either list is empty; when it ends it has yielded every pair
\* of overlapping ranges, and (i, j) is among them iff (j, i) is among the
\* pairs of the swapped call.
C20_IntersectingRanges ==
    mode = "ranges" =>
        /\ Elems(pairs) \subseteq Overlaps(xs, ys)
        /\ \A k \in 1..Len(pairs) : \A l \in (k + 1)..Len(pairs) :
              \/ pairs[k][1] < pairs[l][1]
              \/ pairs[k][1] = pairs[l][1] /\ pairs[k][2] < pairs[l][2]
        /\ Elems(pairs) \cap Touching(xs, ys) = {}
        /\ (xs = <<>> \/ ys = <<>>) => pairs = <<>>
        /\ it_done =>
              /\ Elems(pairs) = Overlaps(xs, ys)
              /\ pairs = IntersectingRanges(xs, ys)
              /\ \A i \in 0..(Len(xs) - 1) : \A j \in 0..(Len(ys) - 1) :
                    <<i, j>> \in Elems(pairs)
                        <=> <<j, i>> \in Elems(IntersectingRanges(ys, xs))

\* C20 witness: the iterator has ended after three pairs on lists that hold
\* a touching pair and a range that overlaps two of the other list.
C20_Witness ==
    /\ mode = "ranges"
    /\ it_done
    /\ Len(pairs) = 3
    /\ Touching(xs, ys) # {}
    /\ pairs[2][1] = pairs[3][1]
    /\ pairs[1][1] # pairs[2][1]

\* Whether cell (i, j) exists and is filled.
Filled(mat, i, j) == i >= 0 /\ i < Rows(mat) /\ Get(mat, i, j)

\* C18: a call of covered_hole returns None if and only if in every column
\* no empty cell lies below a filled cell.
C18_NoneIffStacked ==
    (mode = "hole" /\ hole.called) =>
        (~hole.out.some <=>
            \A j \in 0..(Cols(matrix) - 1) : \A i \in 0..(Rows(matrix) - 1) :
                Filled(matrix, i, j) =>
                    \A k \in 0..(i - 1) : Filled(matrix, k, j))

\* C18 witness: None was returned for a matrix with an empty top row whose
\* columns are stacks of different heights, on a buffer that was not empty.
C18_Witness ==
    /\ mode = "hole"
    /\ hole.called
    /\ ~hole.out.some
    /\ hole.prior # <<>>
    /\ Rows(matrix) = 3
    /\ matrix[1] = {0, 1}
    /\ matrix[2] = {0}
    /\ matrix[3] = {}

\* The cells at which the scan meets a gap: filled cells with an empty cell
\* right above and a filled cell somewhere higher in the column.
GapCells(mat) ==
    {c \in (0..(Rows(mat) - 1)) \X (0..(Cols(mat) - 1)) :
        /\ Filled(mat, c[1], c[2])
        /\ ~Filled(mat, c[1] + 1, c[2])
        /\ \E k \in (c[1] + 2)..(Rows(mat) - 1) : Filled(mat, k, c[2])}

\* The columns that hold a filled cell and whose bottom cell is empty.
FloorCols(mat) ==
    {j \in 0..(Cols(mat) - 1) :
        /\ ~Filled(mat, 0, j)
        /\ \E k \in 0..(Rows(mat) - 1) : Filled(mat, k, j)}

SetMax(S) == CHOOSE x \in S : \A y \in S : y <= x
SetMin(S) == CHOOSE x \in S : \A y \in S : x <= y

\* The lowest run of filled cells of column j at or above row h.
RunAbove(mat, h, j) ==
    LET lo == SetMin({k \in h..(Rows(mat) - 1) : Filled(mat, k, j)})
        hi == SetMin({k \in (lo + 1)..Rows(mat) : ~Filled(mat, k, j)})
    IN  Rng(lo, hi)

\* The gap the top-down, ascending-column scan meets first: in the highest
\* row that holds a gap cell, at the lowest such column; a floor hole, at
\* the lowest such column, only when there is no gap cell.
FirstGap(mat) ==
    IF GapCells(mat) # {}
    THEN LET i == SetMax({c[1] : c \in GapCells(mat)})
             j == SetMin({c[2] : c \in {d \in GapCells(mat) : d[1] = i}})
         IN  [some |-> TRUE, row |-> i + 1, res |-> RunAbove(mat, i + 1, j)]
    ELSE IF FloorCols(mat) # {}
    THEN [some |-> TRUE, row |-> 0,
          res |-> RunAbove(mat, 0, SetMin(FloorCols(mat)))]
    ELSE NoHole

\* C19: when a call of covered_hole returns Some((h, r)), it is the first
\* gap of the top-down, ascending-column scan (a higher row wins, then the
\* lowest column, a floor hole only when no filled cell closes a gap); some
\* column j is empty in rows h..r.start, filled in rows r.start..r.end, with
\* r.start > h and h = 0 or cell (h-1, j) filled; and the result is the one
\* a call with a new buffer gives.
C19_FirstGap ==
    (mode = "hole" /\ hole.called /\ hole.out.some) =>
        LET h == hole.out.row
            r == hole.out.res
        IN  /\ hole.out = FirstGap(matrix)
            /\ \E j \in 0..(Cols(matrix) - 1) :
                  /\ ~Filled(matrix, h, j)
                  /\ \A i \in h..(r.start - 1) : ~Filled(matrix, i, j)
                  /\ \A i \in r.start..(r.end - 1) : Filled(matrix, i, j)
                  /\ r.start > h
                  /\ h = 0 \/ Filled(matrix, h - 1, j)
            /\ hole.out = CoveredHole(matrix, <<>>).out
            /\ hole.out = CoveredHole(matrix, residue_buf).out

\* C19 witness: on a buffer that was not empty, the gap reported is in
\* column 1 and closed in row 1, while column 0 holds a gap closed in row 0
\* only.
C19_Witness ==
    /\ mode = "hole"
    /\ hole.called
    /\ hole.prior # <<>>
    /\ hole.out = [some |-> TRUE, row |-> 2, res |-> Rng(3, 4)]
    /\ <<1, 1>> \in GapCells(matrix)
    /\ <<0, 0>> \in GapCells(matrix)
    /\ <<1, 0>> \notin GapCells(matrix)

\* C19 witness of the tie: two columns hold a gap closed in the same row,
\* and the one reported is that of column 0, which differs from column 1's.
C19_TieWitness ==
    /\ mode = "hole"
    /\ hole.called
    /\ hole.out.some
    /\ <<0, 0>> \in GapCells(matrix)
    /\ <<0, 1>> \in GapCells(matrix)
    /\ hole.out.res = RunAbove(matrix, 1, 0)
    /\ hole.out.res # RunAbove(matrix, 1, 1)

Returned == mode = "score" /\ sc_pc = "returned"

\* C15 as stated: score of the matrix with no rows is 0 for every
\* ScoreParams.
C15_EmptyScoresZero ==
    (Returned /\ arg = <<>>) => result.value = 0

\* C15 as amended: score of the matrix with no rows is params.row_factor
\* (the inserted bottom row is counted once), hence 0 whenever row_factor
\* is 0, as it is by default.
C15_EmptyScoresRowFactor ==
    (Returned /\ arg = <<>>) =>
        /\ result.value = result.params.row_factor
        /\ result.params.row_factor = 0 => result.value = 0
        /\ score = 0
        /\ depth = 0
        /\ Rows(matrix) = 1

\* C15 witness: score has returned 0 for the matrix with no rows under the
\* default ScoreParams, whose piece_estimate_factor is not 0.
C15_Witness ==
    /\ Returned
    /\ arg = <<>>
    /\ result.params = DefaultParams
    /\ result.value = 0

\* The matrix with one more row on top, all empty.
WithEmptyTopRow(mat) == Append(mat, {})

\* C16 as stated: for every matrix and every ScoreParams, score of the
\* matrix equals score of the matrix with one all-empty row added on top.
C16_TopRowInvariant ==
    Returned => Score(result.params, WithEmptyTopRow(arg)) = result.value

\* C16 as amended: score of the matrix with one all-empty row added on top
\* is score of the matrix plus params.row_factor, hence equal to it whenever
\* row_factor is 0, as it is by default.
C16_TopRowAddsRowFactor ==
    Returned =>
        /\ Score(result.params, WithEmptyTopRow(arg))
               = result.value + result.params.row_factor
        /\ result.params.row_factor = 0 =>
               Score(result.params, WithEmptyTopRow(arg)) = result.value
        /\ result.value = Score(result.params, arg)

\* C16 witness: score has returned a value above 0 under the default
\* ScoreParams for a matrix whose top row holds a filled cell and from
\* which two holes were taken.
C16_Witness ==
    /\ Returned
    /\ result.params = DefaultParams
    /\ result.value > 0
    /\ depth = 2
    /\ Rows(arg) = MaxRows - 1
    /\ arg[MaxRows - 1] # {}

\* C22: on a live handle, a poll() that returns Err(AnalysisDone) finds the
\* stats slot written: the sender is gone only after finish wrote it, and as
\* long as the handle lives no send fails.
C22_DoneHasStats ==
    /\ [][(PollStep /\ last'.res = "Done") => Stats' # NoStats]_vars
    /\ [](rx_alive /\ ~tx_alive => Stats # NoStats)
    /\ [](rx_alive /\ done_seen => Stats # NoStats /\ Stats = finish_arg)
    /\ [](rx_alive => send_fails = 0)

\* C22 witness: a poll() on a live handle returned Done after a message was
\* delivered, and the stats are there.
C22_Witness ==
    /\ rx_alive
    /\ last.op = "poll"
    /\ last.res = "Done"
    /\ n_recv >= 1
    /\ Stats # NoStats

\* C25: once the worker has called finish, the Stats it passed hold the
\* number of step() calls that returned Ok(None) as iterations and the
\* node count at loop exit as nodes, and no record sent, and none in the
\* handle's table, has an iteration above Stats.iterations.
C25_StatsCounts ==
    finish_calls > 0 =>
        /\ finish_arg.iterations = none_steps
        /\ finish_arg.nodes = node_count
        /\ \A k \in 1..Len(sent) :
              sent[k].mov.iteration <= finish_arg.iterations
        /\ \A m \in AllMoves : moves[m].iteration <= finish_arg.iterations
        /\ Stats = finish_arg

\* C25 witness: the worker finished after steps of both kinds, with a record
\* of the last iteration in the handle's table, and the two counters differ.
C25_Witness ==
    /\ finish_calls = 1
    /\ finish_arg.iterations >= 1
    /\ finish_arg.nodes # finish_arg.iterations
    /\ \E m \in AllMoves : moves[m].iteration = finish_arg.iterations

\* The graph of the gaps of a list of rows: a vertex <<k, i>> is the i-th
\* gap of the k-th row, and two vertices are joined when they lie in
\* neighbouring rows and their ranges overlap.
GapVertices(rows) ==
    UNION {{<<k, i>> : i \in 1..Len(rows[k])} : k \in 1..Len(rows)}

GapOf(rows, v) == rows[v[1]][v[2]]

GapsJoined(rows, u, v) ==
    /\ (v[1] = u[1] + 1 \/ u[1] = v[1] + 1)
    /\ Max(GapOf(rows, u).start, GapOf(rows, v).start)
           < Min(GapOf(rows, u).end, GapOf(rows, v).end)

\* The vertices that chains of joined gaps reach from those of S.
RECURSIVE Reach(_, _)
Reach(rows, S) ==
    LET T == S \cup {v \in GapVertices(rows) :
                        \E u \in S : GapsJoined(rows, u, v)}
    IN  IF T = S THEN S ELSE Reach(rows, T)

GapComponents(rows) == {Reach(rows, {v}) : v \in GapVertices(rows)}

\* The sum of end - start over the gaps of a set of vertices.
RECURSIVE AreaOfSet(_, _)
AreaOfSet(rows, S) ==
    IF S = {} THEN 0
    ELSE LET v == CHOOSE x \in S : TRUE
         IN  (GapOf(rows, v).end - GapOf(rows, v).start)
             + AreaOfSet(rows, S \ {v})

\* How often a occurs in the list q.
Count(q, a) == Cardinality({k \in 1..Len(q) : q[k] = a})

\* C21: the areas gaps_contiguous_areas returns are, as a multiset, the
\* areas of the connected components of the graph of the gaps (joined when
\* in neighbouring rows and overlapping), an area being the sum of
\* end - start over the component; no area 0 is returned; and the areas add
\* up to the number of empty cells of the rows.
C21_ComponentAreas ==
    (mode = "areas" /\ area_call.called) =>
        LET comps == GapComponents(gap_rows)
            area == [c \in comps |-> AreaOfSet(gap_rows, c)]
        IN  /\ \A a \in 1..(MaxGapCols * MaxGapRows) :
                  Count(area_call.out, a)
                      = Cardinality({c \in comps : area[c] = a})
            /\ \A k \in 1..Len(area_call.out) :
                  area_call.out[k] \in 1..(MaxGapCols * MaxGapRows)
            /\ Sum(area_call.out)
                   = AreaOfSet(gap_rows, GapVertices(gap_rows))

\* C21 witness: one area, 7, was returned for three rows whose first row
\* has two gaps, joined only through the second row and the third.
C21_Witness ==
    /\ mode = "areas"
    /\ area_call.called
    /\ Len(gap_rows) = 3
    /\ area_call.out = <<7>>
    /\ Len(gap_rows[1]) = 2
    /\ Len(gap_rows[2]) = 2
    /\ Len(gap_rows[3]) = 1

\* A step that is one round of score's loop.
RoundStep == mode = "score" /\ sc_pc = "loop" /\ depth' = depth + 1

\* C23: in every round of score's loop the hole (h, r) found has
\* r.end >= h + 2 and r.end within the matrix, the rows removed are exactly
\* the rows h+1..r.end (so rows 0..h stay and the row count goes down by
\* r.end - h - 1 > 0); the row count stays at least 1 and, with the rounds
\* made added, never exceeds the row count at the start of the loop; and the
\* rounds made never exceed the rows of the matrix passed in.
C23_LoopTerminates ==
    /\ [][RoundStep =>
            LET h == hole'.out.row
                r == hole'.out.res
            IN  /\ hole'.out.some
                /\ r.end >= h + 2
                /\ r.end <= Rows(matrix)
                /\ Rows(matrix') = Rows(matrix) - (r.end - (h + 1))
                /\ Rows(matrix') < Rows(matrix)
                /\ SubSeq(matrix', 1, h + 1) = SubSeq(matrix, 1, h + 1)
                /\ SubSeq(matrix', h + 2, Rows(matrix'))
                       = SubSeq(matrix, r.end + 1, Rows(matrix))]_vars
    /\ [](mode = "score" /\ sc_pc = "loop" =>
             Rows(matrix) >= 1 /\ Rows(matrix) + depth <= Rows(arg) + 1)
    /\ [](mode = "score" => depth <= Rows(arg))

\* C23 witness: score has returned after as many rounds as the matrix
\* passed in has rows, two.
C23_Witness ==
    /\ Returned
    /\ Rows(arg) = 2
    /\ depth = 2

\* Whether a matrix holds a filled cell.
HasFilled(mat) == \E k \in 1..Len(mat) : mat[k] # {}

\* C24: when score's loop has ended the working matrix holds no filled cell;
\* the bottom row score inserted is empty throughout; every round adds at
\* least 1 to the running sum; hence with row_factor = 0 and
\* piece_estimate_factor > 0 the value is 0 if and only if the matrix passed
\* in holds no filled cell, and at least piece_estimate_factor otherwise.
C24_ExitEmpty ==
    /\ [](Returned =>
             /\ ~HasFilled(matrix)
             /\ ~hole.out.some
             /\ (depth = 0 <=> ~HasFilled(arg))
             /\ (result.params.row_factor = 0
                    /\ result.params.piece_estimate_factor > 0) =>
                   /\ result.value = 0 <=> ~HasFilled(arg)
                   /\ HasFilled(arg) =>
                         result.value >= result.params.piece_estimate_factor)
    /\ [](mode = "score" /\ sc_pc # "call" =>
             matrix[1] = {} /\ score >= depth)
    /\ [][RoundStep => score' >= score + 1]_vars

\* C24 witness: under the default ScoreParams score has returned exactly
\* piece_estimate_factor for a matrix with filled cells in two rows, after
\* one round.
C24_Witness ==
    /\ Returned
    /\ result.params = DefaultParams
    /\ result.value = DefaultParams.piece_estimate_factor
    /\ depth = 1
    /\ Rows(arg) = 2
    /\ arg[1] # {}
    /\ arg[2] # {}

=============================================================================
